---- MODULE Spec2Model ----
(***************************************************************************)
(* A model of stencil.py: StencilBase.parse / StencilBase.compile and the  *)
(* Compiler class (the delimiter scanner, the substitution dispatcher, the *)
(* nesting level, the fragment validation and the SyntaxError arguments),  *)
(* under the Web2pyStencil profile.  Text is a sequence of one-character   *)
(* strings, so that str.partition, str.strip, the regular expressions of   *)
(* the handler table and repr() are computed character by character.       *)
(***************************************************************************)
EXTENDS Integers, Sequences, FiniteSets, TLC

NL == "\n"
TAB == "\t"
BSL == "\\"

(***************************************************************************)
(* The profile: class attributes of StencilBase and Web2pyStencil.         *)
(***************************************************************************)
opener == <<"{", "{">>
closer == <<"}", "}">>
indent == <<TAB>>
writer == <<"s","y","s",".","s","t","d","o","u","t",".","w","r","i","t","e">>
filename == "<string>"

(***************************************************************************)
(* Bounds: a template is the concatenation of at most MaxPieces pieces     *)
(* (at most MaxPairPieces where two calls of parse run side by side).      *)
(***************************************************************************)
MaxPieces == 4
MaxPairPieces == 3

kw_if == <<"i","f"," ","1",":">>
kw_pass == <<"p","a","s","s">>
kw_else == <<"e","l","s","e",":">>
kw_try == <<"t","r","y",":">>

Pieces ==
    { opener, closer, <<"x">>, <<"=">>, <<NL>>, <<"x", NL>>,
      opener \o kw_if \o closer,
      opener \o kw_pass \o closer,
      opener \o kw_else \o closer,
      opener \o kw_try \o closer,
      opener \o <<"=">> \o kw_if \o closer }

RECURSIVE Flatten(_)
Flatten(ss) == IF ss = <<>> THEN <<>> ELSE Head(ss) \o Flatten(Tail(ss))

TemplatesOf(max) ==
    { Flatten(ps) : ps \in UNION { [1..n -> Pieces] : n \in 0..max } }

Templates == TemplatesOf(MaxPieces)

(***************************************************************************)
(* String primitives of Python used by the code.                           *)
(***************************************************************************)
Last(s) == s[Len(s)]

IsSpace(c) == c \in {" ", TAB, NL, "\r", "\f"}

startswith(s, p) == Len(s) >= Len(p) /\ SubSeq(s, 1, Len(p)) = p

\* str.find: 1-based index of the first occurrence of d in s, 0 if none
find(s, d) ==
    LET I == { i \in 1..(Len(s) - Len(d) + 1) : SubSeq(s, i, i + Len(d) - 1) = d }
    IN  IF I = {} THEN 0 ELSE CHOOSE i \in I : \A j \in I : i <= j

\* str.partition: <<before, separator found, after>>
partition(s, d) ==
    LET i == find(s, d)
    IN  IF i = 0 THEN <<s, <<>>, <<>>>>
        ELSE <<SubSeq(s, 1, i - 1), d, SubSeq(s, i + Len(d), Len(s))>>

RECURSIVE lstrip(_)
lstrip(s) == IF s # <<>> /\ IsSpace(Head(s)) THEN lstrip(Tail(s)) ELSE s

RECURSIVE rstrip(_)
rstrip(s) ==
    IF s # <<>> /\ IsSpace(Last(s)) THEN rstrip(SubSeq(s, 1, Len(s) - 1)) ELSE s

strip(s) == rstrip(lstrip(s))

\* number of leading whitespace characters of s
spaces(s) == Len(s) - Len(lstrip(s))

RECURSIVE repr_body(_)
repr_body(s) ==
    IF s = <<>> THEN <<>>
    ELSE LET c == Head(s)
             e == CASE c = NL -> <<BSL, "n">>
                    [] c = TAB -> <<BSL, "t">>
                    [] c = "\r" -> <<BSL, "r">>
                    [] c = BSL -> <<BSL, BSL>>
                    [] c = "'" -> <<BSL, "'">>
                    [] OTHER -> <<c>>
         IN  e \o repr_body(Tail(s))

\* repr() of a str without double quotes: single-quoted, escapes applied
repr(s) == <<"'">> \o repr_body(s) \o <<"'">>

\* the lines a StringIO over data yields: split after every newline
RECURSIVE readlines(_)
readlines(data) ==
    LET i == find(data, <<NL>>)
    IN  IF data = <<>> THEN <<>>
        ELSE IF i = 0 THEN <<data>>
        ELSE <<SubSeq(data, 1, i)>> \o readlines(SubSeq(data, i + 1, Len(data)))

(***************************************************************************)
(* The handler table of Web2pyStencil: self.subs, in insertion order.      *)
(***************************************************************************)
subs == <<"on_equal_sign", "on_extend">>

kw_extend == <<"e","x","t","e","n","d">>

\* re.match('(%s)' % pat, text).end() for the pattern bound to handler h
\* ('=\s*' and 'extend\s+'), or -1 when the pattern does not match
re_match(h, text) ==
    IF h = "on_equal_sign"
    THEN IF text # <<>> /\ Head(text) = "="
         THEN 1 + spaces(Tail(text)) ELSE -1
    ELSE IF startswith(text, kw_extend)
            /\ spaces(SubSeq(text, Len(kw_extend) + 1, Len(text))) >= 1
         THEN Len(kw_extend) + spaces(SubSeq(text, Len(kw_extend) + 1, Len(text)))
         ELSE -1

on_equal_sign(remainder) ==
    writer \o <<"(","s","t","r","(">> \o remainder \o <<")",")">>

on_extend(remainder) ==
    <<"#","E","x","t","e","n","d","i","n","g"," ">> \o remainder

call_handler(h, remainder) ==
    IF h = "on_equal_sign" THEN on_equal_sign(remainder) ELSE on_extend(remainder)

\* index in subs of the first handler whose pattern matches, 0 if none
first_match(text) ==
    LET M == { k \in 1..Len(subs) : re_match(subs[k], text) >= 0 }
    IN  IF M = {} THEN 0 ELSE CHOOSE k \in M : \A j \in M : k <= j

dedent(token) == token = kw_pass

continuation ==
    { <<"e","l","i","f">>, <<"e","l","s","e">>,
      <<"e","x","c","e","p","t">>, <<"f","i","n","a","l","l","y">> }

(***************************************************************************)
(* The fragment validation: the check-source built by process_substitution *)
(* and the verdict of the builtin compile() on it.                         *)
(***************************************************************************)
stub_if == <<"i","f"," ","1",":","p","a","s","s",NL>>
stub_try == <<"t","r","y",":","p","a","s","s",NL>>
stub_body == <<NL, TAB>> \o kw_pass

block_check(text) ==
    IF Last(text) = ":"
    THEN (IF startswith(text, <<"e","l">>) THEN stub_if \o text
          ELSE IF startswith(text, <<"e","x","c","e","p","t">>)
                  \/ startswith(text, <<"f","i","n","a","l","l","y">>)
               THEN stub_try \o text
               ELSE text) \o stub_body
    ELSE text

\* the pieces of s between occurrences of the character c (str.split)
RECURSIVE split(_, _)
split(s, c) ==
    LET i == find(s, <<c>>)
    IN  IF i = 0 THEN <<s>>
        ELSE <<SubSeq(s, 1, i - 1)>> \o split(SubSeq(s, i + 1, Len(s)), c)

\* one logical line "x", "x=x", "x==x", ...: identifiers made of the letter
\* x joined by = (assignment) and == (comparison); every assignment target
\* is a plain identifier, so no = follows a ==
simple_stmt(ln) ==
    \/ ln = kw_pass
    \/ /\ ln # <<>>
       /\ \A i \in 1..Len(ln) : ln[i] \in {"x", "="}
       /\ Head(ln) = "x" /\ Last(ln) = "x"
       /\ \A i \in 1..(Len(ln) - 2) :
              ~(ln[i] = "=" /\ ln[i + 1] = "=" /\ ln[i + 2] = "=")
       /\ \A i \in 2..(Len(ln) - 1) :
              (ln[i] = "=" /\ ln[i - 1] # "=" /\ ln[i + 1] # "=")
                  => ~\E j \in 1..(i - 2) : ln[j] = "=" /\ ln[j + 1] = "="

compound_ok ==
    { kw_if \o stub_body,
      stub_if \o kw_else \o stub_body,
      stub_try \o <<"e","x","c","e","p","t",":">> \o stub_body,
      stub_try \o <<"f","i","n","a","l","l","y",":">> \o stub_body }

\* compile(source, filename, 'exec') of Python, on the sources the templates
\* of this model produce: TRUE when the source is accepted, FALSE when the
\* parser raises SyntaxError
builtin_compile(source) ==
    \/ source \in compound_ok
    \/ LET lines == split(source, NL)
       IN  \A i \in 1..Len(lines) : lines[i] = <<>> \/ simple_stmt(lines[i])

(***************************************************************************)
(* Compiler.print, Compiler.syntax_state, Compiler.process_substitution.   *)
(***************************************************************************)
RECURSIVE times(_, _)
times(s, n) == IF n <= 0 THEN <<>> ELSE s \o times(s, n - 1)

\* print(indent * level, text, sep='', file=out): one more line in the sink
Compiler_print(o, lvl, text) == Append(o, times(indent, lvl) \o text)

\* the statement that writes a literal span
write_literal(text) == writer \o <<"(">> \o repr(text) \o <<")">>

NoExc == [type |-> "none"]

\* SyntaxError(msg, syntax_state(offset)).  The offset the Python parser
\* reports for a rejected check-source is a function of that source; it is
\* carried as the source itself (offset_of), <<>> when the offset is 0.
SyntaxError(msg, ln, col, cur, offset_of) ==
    [type |-> "SyntaxError", msg |-> msg, filename |-> filename,
     lineno |-> ln, column |-> col, offset_of |-> offset_of, text |-> cur]

\* block_check[-1] on an empty string
IndexError == [type |-> "IndexError"]

\* lines 205-219: build the check-source of text and compile it; checked is
\* the text that line 205 takes as block_check, before the stubs are added
validate(lvl, col, o, text, ln, cur) ==
    IF text = <<>>
    THEN [level |-> lvl, column |-> col, out |-> o, checked |-> text,
          exc |-> IndexError]
    ELSE IF builtin_compile(block_check(text))
    THEN [level |-> lvl, column |-> col, out |-> o, checked |-> text,
          exc |-> NoExc]
    ELSE [level |-> lvl, column |-> col, out |-> o, checked |-> text,
          exc |-> SyntaxError("error.msg", ln, col, cur, block_check(text))]

\* lines 185-191: the directive matched the pattern of subs[k]
handler_path(lvl, col, o, text, k, ln, cur) ==
    LET e == re_match(subs[k], text)
        remainder == SubSeq(text, e + 1, Len(text))
    IN  validate(lvl, col + e,
                 Compiler_print(o, lvl, call_handler(subs[k], remainder)),
                 remainder, ln, cur)

\* pass_through without the check of lines 197-200
pass_through_unchecked(lvl, col, o, text, ln, cur) ==
    LET d == dedent(text)
        l1 == IF d \/ \E b \in continuation : startswith(text, b)
              THEN lvl - 1 ELSE lvl
        o1 == IF ~d THEN Compiler_print(o, l1, text) ELSE o
        l2 == IF Last(text) = ":" THEN l1 + 1 ELSE l1
    IN  validate(l2, col, o1, text, ln, cur)

\* pass_through printing the statement before the level is lowered
pass_through_print_early(lvl, col, o, text, ln, cur) ==
    LET d == dedent(text)
        l1 == IF d \/ \E b \in continuation : startswith(text, b)
              THEN lvl - 1 ELSE lvl
        o1 == IF ~d THEN Compiler_print(o, lvl, text) ELSE o
        l2 == IF Last(text) = ":" THEN l1 + 1 ELSE l1
    IN  IF l1 < 0
        THEN [level |-> l1, column |-> col, out |-> o, checked |-> <<>>,
              exc |-> SyntaxError("Got dedent outside of block", ln, col, cur, <<>>)]
        ELSE validate(l2, col, o1, text, ln, cur)

\* pass_through printing the dedent token like any other statement
pass_through_emit_dedent(lvl, col, o, text, ln, cur) ==
    LET d == dedent(text)
        l1 == IF d \/ \E b \in continuation : startswith(text, b)
              THEN lvl - 1 ELSE lvl
        o1 == Compiler_print(o, l1, text)
        l2 == IF Last(text) = ":" THEN l1 + 1 ELSE l1
    IN  IF l1 < 0
        THEN [level |-> l1, column |-> col, out |-> o, checked |-> <<>>,
              exc |-> SyntaxError("Got dedent outside of block", ln, col, cur, <<>>)]
        ELSE validate(l2, col, o1, text, ln, cur)

\* pass_through taking a directive as a continuation only when it is the
\* bare keyword
pass_through_bare_keyword(lvl, col, o, text, ln, cur) ==
    LET d == dedent(text)
        l1 == IF d \/ text \in continuation THEN lvl - 1 ELSE lvl
        o1 == IF ~d THEN Compiler_print(o, l1, text) ELSE o
        l2 == IF Last(text) = ":" THEN l1 + 1 ELSE l1
    IN  IF l1 < 0
        THEN [level |-> l1, column |-> col, out |-> o, checked |-> <<>>,
              exc |-> SyntaxError("Got dedent outside of block", ln, col, cur, <<>>)]
        ELSE validate(l2, col, o1, text, ln, cur)

\* lines 193-204: no pattern matched
pass_through(lvl, col, o, text, ln, cur) ==
    LET d == dedent(text)
        l1 == IF d \/ \E b \in continuation : startswith(text, b)
              THEN lvl - 1 ELSE lvl
        o1 == IF ~d THEN Compiler_print(o, l1, text) ELSE o
        l2 == IF Last(text) = ":" THEN l1 + 1 ELSE l1
    IN  IF l1 < 0
        THEN [level |-> l1, column |-> col, out |-> o, checked |-> <<>>,
              exc |-> SyntaxError("Got dedent outside of block", ln, col, cur, <<>>)]
        ELSE validate(l2, col, o1, text, ln, cur)

\* process_substitution without the strip of line 183
process_substitution_unstripped(lvl, col, o, span, ln, cur) ==
    LET text == span
        k == first_match(text)
    IN  IF text = <<>>
        THEN [level |-> lvl, column |-> col, out |-> o, checked |-> <<>>,
              exc |-> NoExc]
        ELSE IF k > 0 THEN handler_path(lvl, col, o, text, k, ln, cur)
        ELSE pass_through(lvl, col, o, text, ln, cur)

\* Compiler.process_substitution(span) with self.level = lvl, self.column =
\* col, self.out = o, self.linenumber = ln, self.currentline = cur: the new
\* level, column and sink, the text handed to the fragment validation (<<>>
\* when the call ends before line 205) and the exception raised, if any
process_substitution(lvl, col, o, span, ln, cur) ==
    LET text == strip(span)
        k == first_match(text)
    IN  IF text = <<>>
        THEN [level |-> lvl, column |-> col, out |-> o, checked |-> <<>>,
              exc |-> NoExc]
        ELSE IF k > 0 THEN handler_path(lvl, col, o, text, k, ln, cur)
        ELSE pass_through(lvl, col, o, text, ln, cur)

\* StringIO.getvalue(): every printed line followed by a newline
RECURSIVE getvalue(_)
getvalue(o) == IF o = <<>> THEN <<>> ELSE Head(o) \o <<NL>> \o getvalue(Tail(o))

(***************************************************************************)
(* State.  comp[i] is the i-th call of parse(data, out) on the template    *)
(* data: the fields of its Compiler object, the iterator over its own      *)
(* StringIO, the locals of Compiler.compile, the sink, and how it ended.   *)
(***************************************************************************)
VARIABLES
    data,   \* the template text
    comp    \* comp[i]: [return_text, file, line, column, linenumber, level,
            \*           multiline, currentline, insub, text, out, checked,
            \*           exc, result, pc]

vars == <<data, comp>>

NoResult == [returned |-> FALSE]

\* parse, StencilBase.__init__, StencilBase.compile up to Compiler.__init__:
\* a fresh Compiler over the lines of its own source.  return_text is
\* "out is None"; pc is "for", "while", "return", "done" or "raised"; checked
\* is the text the last call of process_substitution handed to the fragment
\* validation.
Compiler(lines, return_text) ==
    [return_text |-> return_text,
     file |-> lines,
     line |-> <<>>,
     column |-> 0,
     linenumber |-> 0,
     level |-> 0,
     multiline |-> <<>>,
     currentline |-> <<>>,
     insub |-> FALSE,
     text |-> <<>>,
     out |-> <<>>,
     checked |-> <<>>,
     exc |-> NoExc,
     result |-> NoResult,
     pc |-> "for"]

\* one call of parse
Init ==
    /\ data \in Templates
    /\ \E rt \in BOOLEAN : comp = [i \in {1} |-> Compiler(readlines(data), rt)]

\* NextLine without the carried buffer in front of the line
NextLine_drop_buffer(i) ==
    LET c == comp[i]
    IN  /\ c.pc = "for" /\ c.file # <<>>
        /\ comp' = [comp EXCEPT ![i] =
              [c EXCEPT !.linenumber = c.linenumber + 1,
                        !.line = Head(c.file),
                        !.currentline = Head(c.file),
                        !.multiline = <<>>,
                        !.column = 0,
                        !.file = Tail(c.file),
                        !.pc = "while"]]
        /\ UNCHANGED data

\* NextLine with insub = False inside the for loop
NextLine_reset_insub(i) ==
    LET c == comp[i]
    IN  /\ c.pc = "for" /\ c.file # <<>>
        /\ comp' = [comp EXCEPT ![i] =
              [c EXCEPT !.linenumber = c.linenumber + 1,
                        !.line = c.multiline \o Head(c.file),
                        !.currentline = Head(c.file),
                        !.multiline = <<>>,
                        !.column = 0,
                        !.file = Tail(c.file),
                        !.insub = FALSE,
                        !.pc = "while"]]
        /\ UNCHANGED data

\* NextLine keeping the raw line on which the carried buffer began
NextLine_keep_currentline(i) ==
    LET c == comp[i]
    IN  /\ c.pc = "for" /\ c.file # <<>>
        /\ comp' = [comp EXCEPT ![i] =
              [c EXCEPT !.linenumber = c.linenumber + 1,
                        !.line = c.multiline \o Head(c.file),
                        !.currentline = IF c.multiline # <<>>
                                        THEN c.currentline ELSE Head(c.file),
                        !.multiline = <<>>,
                        !.column = 0,
                        !.file = Tail(c.file),
                        !.pc = "while"]]
        /\ UNCHANGED data

\* lines 153-159: the for loop takes the next line
NextLine(i) ==
    LET c == comp[i]
    IN  /\ c.pc = "for" /\ c.file # <<>>
        /\ comp' = [comp EXCEPT ![i] =
              [c EXCEPT !.linenumber = c.linenumber + 1,
                        !.line = c.multiline \o Head(c.file),
                        !.currentline = Head(c.file),
                        !.multiline = <<>>,
                        !.column = 0,
                        !.file = Tail(c.file),
                        !.pc = "while"]]
        /\ UNCHANGED data

\* line 160: the while condition is false
LineDone(i) ==
    LET c == comp[i]
    IN  /\ c.pc = "while" /\ c.line = <<>>
        /\ comp' = [comp EXCEPT ![i] = [c EXCEPT !.pc = "for"]]
        /\ UNCHANGED data

\* delimiter that never switches to the closer
delimiter_always_opener(c) == opener

\* lines 161-162
delimiter(c) == IF c.insub THEN closer ELSE opener

\* NotFound without line 165: the rest of the line is not kept
NotFound_forget_text(i) ==
    LET c == comp[i]
        p == partition(c.line, delimiter(c))
    IN  /\ c.pc = "while" /\ c.line # <<>>
        /\ p[2] = <<>>
        /\ comp' = [comp EXCEPT ![i] =
              [c EXCEPT !.text = p[1],
                        !.line = p[3],
                        !.pc = "for"]]
        /\ UNCHANGED data

\* lines 161-166: the delimiter is not in the rest of the line
NotFound(i) ==
    LET c == comp[i]
        p == partition(c.line, delimiter(c))
    IN  /\ c.pc = "while" /\ c.line # <<>>
        /\ p[2] = <<>>
        /\ comp' = [comp EXCEPT ![i] =
              [c EXCEPT !.text = p[1],
                        !.line = p[3],
                        !.multiline = c.multiline \o p[1],
                        !.pc = "for"]]
        /\ UNCHANGED data

\* lines 161-172, not insub: a literal span ends at the opener
LiteralSpan(i) ==
    LET c == comp[i]
        p == partition(c.line, delimiter(c))
    IN  /\ c.pc = "while" /\ c.line # <<>> /\ ~c.insub
        /\ p[2] # <<>>
        /\ comp' = [comp EXCEPT ![i] =
              [c EXCEPT !.text = p[1],
                        !.line = p[3],
                        !.out = IF p[1] # <<>>
                                THEN Compiler_print(c.out, c.level, write_literal(p[1]))
                                ELSE c.out,
                        !.column = c.column + Len(p[1]) + Len(p[2]),
                        !.insub = ~c.insub]]
        /\ UNCHANGED data

\* Substitution where a failing call hands back what was printed so far
Substitution_salvage(i) ==
    LET c == comp[i]
        p == partition(c.line, delimiter(c))
        r == process_substitution(c.level, c.column, c.out, p[1],
                                  c.linenumber, c.currentline)
    IN  /\ c.pc = "while" /\ c.line # <<>> /\ c.insub
        /\ p[2] # <<>>
        /\ comp' = [comp EXCEPT ![i] =
              IF r.exc = NoExc
              THEN [c EXCEPT !.text = p[1],
                             !.line = p[3],
                             !.level = r.level,
                             !.out = r.out,
                             !.checked = r.checked,
                             !.column = r.column + Len(p[1]) + Len(p[2]),
                             !.insub = ~c.insub]
              ELSE [c EXCEPT !.text = p[1],
                             !.line = p[3],
                             !.level = r.level,
                             !.out = r.out,
                             !.checked = r.checked,
                             !.column = r.column,
                             !.exc = r.exc,
                             !.result = [returned |-> TRUE,
                                         value |-> getvalue(r.out)],
                             !.pc = "raised"]]
        /\ UNCHANGED data

\* Substitution with the level kept in one place for all Compiler objects
Substitution_shared_level(i) ==
    LET c == comp[i]
        p == partition(c.line, delimiter(c))
        r == process_substitution(c.level, c.column, c.out, p[1],
                                  c.linenumber, c.currentline)
    IN  /\ c.pc = "while" /\ c.line # <<>> /\ c.insub
        /\ p[2] # <<>>
        /\ comp' = [j \in DOMAIN comp |->
              IF j # i THEN [comp[j] EXCEPT !.level = r.level]
              ELSE IF r.exc = NoExc
              THEN [c EXCEPT !.text = p[1],
                             !.line = p[3],
                             !.level = r.level,
                             !.out = r.out,
                             !.checked = r.checked,
                             !.column = r.column + Len(p[1]) + Len(p[2]),
                             !.insub = ~c.insub]
              ELSE [c EXCEPT !.text = p[1],
                             !.line = p[3],
                             !.level = r.level,
                             !.out = r.out,
                             !.checked = r.checked,
                             !.column = r.column,
                             !.exc = r.exc,
                             !.pc = "raised"]]
        /\ UNCHANGED data

\* lines 161-172, insub: a directive span ends at the closer
Substitution(i) ==
    LET c == comp[i]
        p == partition(c.line, delimiter(c))
        r == process_substitution(c.level, c.column, c.out, p[1],
                                  c.linenumber, c.currentline)
    IN  /\ c.pc = "while" /\ c.line # <<>> /\ c.insub
        /\ p[2] # <<>>
        /\ comp' = [comp EXCEPT ![i] =
              IF r.exc = NoExc
              THEN [c EXCEPT !.text = p[1],
                             !.line = p[3],
                             !.level = r.level,
                             !.out = r.out,
                             !.checked = r.checked,
                             !.column = r.column + Len(p[1]) + Len(p[2]),
                             !.insub = ~c.insub]
              ELSE [c EXCEPT !.text = p[1],
                             !.line = p[3],
                             !.level = r.level,
                             !.out = r.out,
                             !.checked = r.checked,
                             !.column = r.column,
                             !.exc = r.exc,
                             !.pc = "raised"]]
        /\ UNCHANGED data

\* lines 173-177: the source is exhausted
EndOfInput(i) ==
    LET c == comp[i]
    IN  /\ c.pc = "for" /\ c.file = <<>>
        /\ comp' = [comp EXCEPT ![i] =
              IF c.multiline # <<>> /\ c.insub
              THEN [c EXCEPT !.exc = SyntaxError("Unclosed substitution",
                                                 c.linenumber, c.column,
                                                 c.currentline, <<>>),
                             !.pc = "raised"]
              ELSE [c EXCEPT !.out = IF c.multiline # <<>>
                                     THEN Compiler_print(c.out, c.level,
                                                         write_literal(c.multiline))
                                     ELSE c.out,
                             !.pc = "return"]]
        /\ UNCHANGED data

\* lines 129-130: StencilBase.compile returns to the caller of parse
Return(i) ==
    LET c == comp[i]
    IN  /\ c.pc = "return"
        /\ comp' = [comp EXCEPT ![i] =
              [c EXCEPT !.result = [returned |-> TRUE,
                                    value |-> IF c.return_text
                                              THEN getvalue(c.out) ELSE <<>>],
                        !.pc = "done"]]
        /\ UNCHANGED data

Next ==
    \/ \E i \in DOMAIN comp : NextLine(i)
    \/ \E i \in DOMAIN comp : LineDone(i)
    \/ \E i \in DOMAIN comp : NotFound(i)
    \/ \E i \in DOMAIN comp : LiteralSpan(i)
    \/ \E i \in DOMAIN comp : Substitution(i)
    \/ \E i \in DOMAIN comp : EndOfInput(i)
    \/ \E i \in DOMAIN comp : Return(i)

Spec == Init /\ [][Next]_vars

\* two calls of parse on the same template, each with its own StringIO,
\* stencil and Compiler, running side by side
InitTwice ==
    /\ data \in TemplatesOf(MaxPairPieces)
    /\ \E rt \in BOOLEAN :
          comp = [i \in {1, 2} |-> Compiler(readlines(data), rt)]

SpecTwice == InitTwice /\ [][Next]_vars

\* a source that yields the whole text as one physical line
oneline(s) == IF s = <<>> THEN <<>> ELSE <<s>>

\* the template compiled from its lines (call 1) and compiled from a source
\* that yields the same text as one physical line (call 2)
InitOneLine ==
    /\ data \in TemplatesOf(MaxPairPieces)
    /\ \E rt \in BOOLEAN :
          comp = [i \in {1, 2} |->
                    Compiler(IF i = 1 THEN readlines(data) ELSE oneline(data), rt)]

SpecOneLine == InitOneLine /\ [][Next]_vars

(***************************************************************************)
(* Vocabulary of the properties.                                           *)
(***************************************************************************)
Calls == DOMAIN comp

returned(c) == c.pc \in {"return", "done"}

ended(c) == c.pc \in {"done", "raised"}

Diagnostic(c, msg) ==
    c.pc = "raised" /\ c.exc.type = "SyntaxError" /\ c.exc.msg = msg

begins_continuation(t) == \E b \in continuation : startswith(t, b)

\* the number of indentation units in front of a printed line
RECURSIVE depth(_)
depth(ln) ==
    IF startswith(ln, indent)
    THEN 1 + depth(SubSeq(ln, Len(indent) + 1, Len(ln))) ELSE 0

\* the stripped text of the directive span that ends at the next closer
next_directive(c) == strip(partition(c.line, closer)[1])

(***************************************************************************)
(* C1. Whenever end-of-input is reached while the scanner is in directive  *)
(* mode, compile fails with 'Unclosed substitution': a call that returns   *)
(* normally did not end in directive mode, whatever the pending buffer     *)
(* holds, the empty buffer included.                                       *)
(***************************************************************************)
C1_UnclosedAlwaysFails ==
    \A i \in Calls : returned(comp[i]) => ~comp[i].insub

(***************************************************************************)
(* C2. A pass-through directive that is the dedent token or begins with a  *)
(* continuation keyword, processed at level 0, ends the compilation with   *)
(* 'Got dedent outside of block'; nothing is printed for it, and nothing   *)
(* is printed once the error is raised.                                    *)
(***************************************************************************)
C2_DedentAtLevelZero ==
    [][\A i \in Calls :
         LET c == comp[i]
             t == next_directive(c)
         IN  /\ ( /\ Substitution(i)
                  /\ c.level = 0
                  /\ t # <<>> /\ first_match(t) = 0
                  /\ (dedent(t) \/ begins_continuation(t)) )
                => ( /\ Diagnostic(comp'[i], "Got dedent outside of block")
                     /\ comp'[i].out = c.out )
             /\ c.pc = "raised" => comp'[i].out = c.out /\ comp'[i].pc = "raised"
      ]_vars

C2_Witness ==
    \E i \in Calls :
        /\ Diagnostic(comp[i], "Got dedent outside of block")
        /\ begins_continuation(strip(comp[i].text))
        /\ comp[i].out # <<>>

(***************************************************************************)
(* C3. Every statement is printed at the nesting level of the moment it is *)
(* printed, which is never negative: its line is that many indentation     *)
(* units followed by the statement.  The level of that moment is the level *)
(* after the step, less the one that a pass-through directive ending with  *)
(* ':' adds after printing.                                                *)
(***************************************************************************)
C3_PrintedAtLevel ==
    [][\A i \in Calls :
         LET c == comp[i]
             d == comp'[i]
         IN  d.out # c.out =>
               /\ Len(d.out) = Len(c.out) + 1
               /\ SubSeq(d.out, 1, Len(c.out)) = c.out
               /\ LET t == strip(d.text)
                      opened == /\ c.pc = "while" /\ c.insub
                                /\ t # <<>> /\ first_match(t) = 0
                                /\ Last(t) = ":"
                      lv == IF opened THEN d.level - 1 ELSE d.level
                  IN  lv >= 0 /\ depth(Last(d.out)) = lv
      ]_vars

C3_Witness ==
    \E i \in Calls :
        /\ comp[i].out # <<>>
        /\ comp[i].level >= 1
        /\ depth(Last(comp[i].out)) = comp[i].level
        /\ Len(comp[i].out) >= 3

\* the directive spans of a template read as one text; a span that is still
\* open at the end of the text counts as a directive too
RECURSIVE directives(_, _)
directives(s, inside) ==
    LET p == partition(s, IF inside THEN closer ELSE opener)
    IN  IF p[2] = <<>> THEN (IF inside THEN <<s>> ELSE <<>>)
        ELSE (IF inside THEN <<p[1]>> ELSE <<>>) \o directives(p[3], ~inside)

\* pass-through text ending with ':'
ends_with_colon(t) == t # <<>> /\ first_match(t) = 0 /\ Last(t) = ":"

\* the statements of Python that open a block, among the directives of the
\* templates
block_opener(t) == ends_with_colon(t) /\ t \in {kw_if, kw_try}

\* ds, read at nesting n, holds only block openers and dedent tokens, every
\* dedent token closes an open opener and every opener is closed
RECURSIVE matched(_, _)
matched(ds, n) ==
    IF ds = <<>> THEN n = 0
    ELSE LET t == strip(Head(ds))
         IN  IF dedent(t) THEN n >= 1 /\ matched(Tail(ds), n - 1)
             ELSE block_opener(t) /\ matched(Tail(ds), n + 1)

(***************************************************************************)
(* C4. A template whose directives are only block openers and dedent       *)
(* tokens, in matched pairs, with any literal text between them, compiles  *)
(* without error and returns at level 0.                                   *)
(***************************************************************************)
C4_MatchedPairs ==
    \A i \in Calls :
        matched(directives(data, FALSE), 0) =>
            /\ comp[i].exc = NoExc
            /\ returned(comp[i]) => comp[i].level = 0

(***************************************************************************)
(* C5. A block opener (a pass-through directive ending with ':' that       *)
(* continues no block) processed at level n is printed at depth n and      *)
(* leaves the level at n + 1; the dedent token processed at level n >= 1   *)
(* prints nothing and leaves the level at n - 1; a literal span, a handler *)
(* directive or a plain statement is printed at the level it finds and     *)
(* leaves it as it is.                                                     *)
(***************************************************************************)
C5_OpenerAndDedent ==
    [][\A i \in Calls :
         LET c == comp[i]
             d == comp'[i]
             t == next_directive(c)
         IN  /\ (Substitution(i) /\ ends_with_colon(t) /\ ~begins_continuation(t))
                => ( /\ d.out = Append(c.out, times(indent, c.level) \o t)
                     /\ d.level = c.level + 1 )
             /\ (Substitution(i) /\ dedent(t) /\ c.level >= 1)
                => (d.out = c.out /\ d.level = c.level - 1)
             /\ ( /\ d.out # c.out
                  /\ \/ LiteralSpan(i)
                     \/ EndOfInput(i)
                     \/ Substitution(i) /\ ~ends_with_colon(t)
                                        /\ ~begins_continuation(t) )
                => (depth(Last(d.out)) = c.level /\ d.level = c.level)
      ]_vars

C5_Witness ==
    \E i \in Calls :
        /\ comp[i].pc = "while" /\ ~comp[i].insub
        /\ strip(comp[i].text) = kw_pass
        /\ comp[i].level = 1
        /\ comp[i].out = <<kw_if, indent \o kw_if>>

(***************************************************************************)
(* C6. A non-empty template without the opener compiles to exactly one     *)
(* statement, printed at level 0, that writes the whole template text.     *)
(***************************************************************************)
C6_LiteralOnly ==
    \A i \in Calls :
        (data # <<>> /\ find(data, opener) = 0) =>
            /\ comp[i].exc = NoExc
            /\ comp[i].level = 0
            /\ comp[i].out = IF returned(comp[i])
                             THEN <<writer \o <<"(">> \o repr(data) \o <<")">>>>
                             ELSE <<>>

C6_Witness ==
    \E i \in Calls :
        /\ find(data, opener) = 0
        /\ find(data, closer) > 0
        /\ Len(readlines(data)) >= 2
        /\ comp[i].pc = "done"
        /\ Len(comp[i].out) = 1

(***************************************************************************)
(* C7. A directive whose closer is on a later physical line than its       *)
(* opener gives the same printed statements and the same level as the same *)
(* text met on one physical line: the call that reads the template line by *)
(* line ends like the call that reads it as one line.                      *)
(***************************************************************************)
C7_SameAsOneLine ==
    (ended(comp[1]) /\ ended(comp[2])) =>
        /\ comp[1].out = comp[2].out
        /\ comp[1].level = comp[2].level
        /\ comp[1].exc.type = comp[2].exc.type
        /\ comp[1].exc.type = "SyntaxError" => comp[1].exc.msg = comp[2].exc.msg

C7_Witness ==
    /\ comp[1].pc = "done" /\ comp[2].pc = "done"
    /\ comp[1].linenumber >= 2 /\ comp[2].linenumber = 1
    /\ comp[1].out # <<>>
    /\ \E k \in 1..Len(directives(data, FALSE)) :
           /\ find(directives(data, FALSE)[k], <<NL>>) > 0
           /\ strip(directives(data, FALSE)[k]) # <<>>

\* what the caller of parse holds: the returned text, or what has been
\* written to the sink it supplied
delivered(c) ==
    IF c.return_text
    THEN (IF c.result.returned THEN c.result.value ELSE <<>>)
    ELSE getvalue(c.out)

(***************************************************************************)
(* C8 as claimed. When a compilation ends with a Diagnostic, no statement  *)
(* of it has been delivered to the caller, whether the output is returned  *)
(* as one text or streamed to the caller's sink.                           *)
(***************************************************************************)
C8_NothingDelivered ==
    \A i \in Calls :
        comp[i].exc.type = "SyntaxError" => delivered(comp[i]) = <<>>

(***************************************************************************)
(* C8 as amended. A compilation that ends with a Diagnostic returns        *)
(* nothing, and a compilation that returns raised nothing; when the output *)
(* is returned as one text, no statement has been delivered to the caller. *)
(***************************************************************************)
C8_NothingReturned ==
    \A i \in Calls :
        /\ comp[i].exc.type = "SyntaxError" =>
              /\ ~comp[i].result.returned
              /\ comp[i].return_text => delivered(comp[i]) = <<>>
        /\ comp[i].result.returned => comp[i].exc = NoExc

C8_Witness ==
    \E i \in Calls :
        /\ comp[i].pc = "raised" /\ comp[i].exc.type = "SyntaxError"
        /\ comp[i].return_text
        /\ comp[i].out # <<>>

\* where the directive span just scanned starts on the current physical
\* line (0 when it started on an earlier line)
start_on_line(c) ==
    LET k == Len(c.currentline) - Len(c.line) - Len(closer) - Len(c.text)
    IN  IF k < 0 THEN 0 ELSE k

(***************************************************************************)
(* C9. When an unmatched dedent fails the compilation, the column of the   *)
(* Diagnostic is the offset at which the offending directive starts on the *)
(* raw source line of the Diagnostic, whatever precedes the directive.     *)
(***************************************************************************)
C9_UnderflowColumn ==
    \A i \in Calls :
        Diagnostic(comp[i], "Got dedent outside of block") =>
            /\ comp[i].exc.text = comp[i].currentline
            /\ comp[i].exc.column = start_on_line(comp[i])

C11_ColonIncrements ==
    [][\A i \in Calls :
         LET c == comp[i]
             d == comp'[i]
             t == next_directive(c)
         IN  ( /\ Substitution(i)
               /\ t # <<>> /\ Last(t) = ":"
               /\ d.exc = NoExc )
             => ( /\ d.out # c.out
                  /\ d.level = depth(Last(d.out)) + 1 )
      ]_vars

(***************************************************************************)
(* C12. The statement of a directive is written to the output only once    *)
(* the fragment validation has accepted it: a step that processes a        *)
(* directive and ends with the SyntaxError of the validation has added no  *)
(* line to the sink, so a statement the validation rejects is never in the *)
(* output.                                                                 *)
(***************************************************************************)
C12_ValidatedBeforePrinted ==
    [][\A i \in Calls :
         (Substitution(i) /\ Diagnostic(comp'[i], "error.msg"))
             => comp'[i].out = comp[i].out
      ]_vars

\* the statement of a printed line: the line without its indentation
statement(ln) == SubSeq(ln, depth(ln) * Len(indent) + 1, Len(ln))

(***************************************************************************)
(* C13. Whenever processing a directive prints a statement and ends        *)
(* without an exception, the text that was handed to the fragment          *)
(* validation, before the stubs are added, is that statement: what the     *)
(* handler returned on the handler path, the directive text on the         *)
(* pass-through path.                                                      *)
(***************************************************************************)
C13_ValidatedIsEmitted ==
    [][\A i \in Calls :
         ( /\ Substitution(i)
           /\ comp'[i].out # comp[i].out
           /\ comp'[i].exc = NoExc )
             => comp'[i].checked = statement(Last(comp'[i].out))
      ]_vars

\* d occurs in s
contains(s, d) ==
    \E k \in 1..(Len(s) - Len(d) + 1) : SubSeq(s, k, k + Len(d) - 1) = d

\* s is t, then d, then rest, and that d is the first occurrence of d in s
split_at_first(s, t, d, rest) ==
    /\ s = t \o d \o rest
    /\ ~contains(SubSeq(s, 1, Len(t) + Len(d) - 1), d)

(***************************************************************************)
(* C14. In directive mode the span ends at the first closer of the rest of *)
(* the line, whatever openers the rest holds: they are part of the         *)
(* directive text; without a closer nothing is printed, the rest is kept   *)
(* for the next line and the mode stays.  In literal mode the span ends at *)
(* the first opener, and closers before it are written as literal text.    *)
(* The mode changes only in a step that found the delimiter of the mode,   *)
(* and every such step that raises nothing changes it.                     *)
(***************************************************************************)
C14_DelimiterOfTheMode ==
    [][\A i \in Calls :
         LET c == comp[i]
             d == comp'[i]
             scanning == c.pc = "while" /\ c.line # <<>> /\ d # c
         IN  /\ (scanning /\ c.insub) =>
                  IF contains(c.line, closer)
                  THEN /\ split_at_first(c.line, d.text, closer, d.line)
                       /\ d.pc # "raised" => ~d.insub
                  ELSE /\ d.insub /\ d.out = c.out /\ d.level = c.level
                       /\ d.line = <<>>
                       /\ d.multiline = c.multiline \o c.line
             /\ (scanning /\ ~c.insub) =>
                  IF contains(c.line, opener)
                  THEN /\ split_at_first(c.line, d.text, opener, d.line)
                       /\ d.insub
                       /\ d.out = IF d.text = <<>> THEN c.out
                                  ELSE Append(c.out, times(indent, c.level)
                                                     \o write_literal(d.text))
                  ELSE /\ ~d.insub /\ d.out = c.out /\ d.level = c.level
                       /\ d.line = <<>>
                       /\ d.multiline = c.multiline \o c.line
             /\ d.insub # c.insub =>
                  c.pc = "while" /\ contains(c.line, delimiter(c))
      ]_vars

\* a closer was written as literal text, then a directive span holding an
\* opener ended at its first closer and was handed, opener included, to the
\* fragment validation
C14_Witness ==
    \E i \in Calls :
        /\ comp[i].out # <<>>
        /\ contains(comp[i].out[1], closer)
        /\ contains(comp[i].text, opener)
        /\ comp[i].checked = strip(comp[i].text)
        /\ comp[i].pc = "raised" /\ comp[i].insub

\* the part of the template the scanner has not yet turned into spans: the
\* carried buffer, the rest of the line, the lines not yet read
remaining(c) == c.multiline \o c.line \o Flatten(c.file)

\* the part of the template turned into spans and delimiters so far
seen(c) == SubSeq(data, 1, Len(data) - Len(remaining(c)))

\* the level after the directive texts ds, in order, from level lvl: only
\* the non-empty stripped texts count
RECURSIVE level_after(_, _)
level_after(ds, lvl) ==
    IF ds = <<>> THEN lvl
    ELSE IF strip(Head(ds)) = <<>> THEN level_after(Tail(ds), lvl)
    ELSE level_after(Tail(ds),
                     process_substitution(lvl, 0, <<>>, strip(Head(ds)),
                                          0, <<>>).level)

(***************************************************************************)
(* C15. A literal span, the literal buffer flushed at end-of-input and an  *)
(* empty or whitespace-only directive leave the level as it is; an empty   *)
(* literal span and an empty or whitespace-only directive print nothing    *)
(* and raise nothing.  No step other than the processing of a directive    *)
(* changes the level, and after a directive is processed the level is the  *)
(* one obtained from the non-empty directive texts seen so far alone,      *)
(* whatever literal text, blank directives and line breaks lie between     *)
(* them.                                                                   *)
(***************************************************************************)
C15_LevelFromDirectives ==
    [][\A i \in Calls :
         LET c == comp[i]
             d == comp'[i]
             t == next_directive(c)
         IN  IF Substitution(i)
             THEN /\ t = <<>> =>
                       (d.level = c.level /\ d.out = c.out /\ d.exc = NoExc)
                  /\ d.level = level_after(directives(seen(d), FALSE), 0)
             ELSE /\ d.level = c.level
                  /\ (LiteralSpan(i) /\ partition(c.line, opener)[1] = <<>>)
                         => d.out = c.out
      ]_vars

\* a whitespace-only directive has just been processed inside a block
C15_Witness ==
    \E i \in Calls :
        LET ds == directives(seen(comp[i]), FALSE)
        IN  /\ comp[i].pc = "while" /\ ~comp[i].insub
            /\ Len(ds) = 2
            /\ ds[2] = comp[i].text
            /\ ds[2] # <<>> /\ strip(ds[2]) = <<>>
            /\ comp[i].level = 1
            /\ comp[i].out = <<kw_if>>

(***************************************************************************)
(* C16. Compilation terminates with a returned output or a Diagnostic.     *)
(* Every step of a call makes progress: a line is taken from the source    *)
(* once, in order, and never put back; a scan of the rest of the line      *)
(* either strictly shortens it or leaves the while loop; after the source  *)
(* is exhausted the call returns or raises.  A call that ends without      *)
(* returning ends with a SyntaxError.                                      *)
(***************************************************************************)
C16_TerminatesWithOutcome ==
    [][\A i \in Calls :
         LET c == comp[i]
             d == comp'[i]
         IN  d # c =>
               /\ ~ended(c)
               /\ Len(d.file) <= Len(c.file)
               /\ c.pc = "for" =>
                    \/ /\ c.file # <<>>
                       /\ d.file = Tail(c.file) /\ d.currentline = Head(c.file)
                       /\ d.linenumber = c.linenumber + 1
                       /\ d.pc = "while"
                    \/ c.file = <<>> /\ d.pc \in {"return", "raised"}
               /\ c.pc = "while" =>
                    /\ d.file = c.file
                    /\ \/ d.pc = "while" /\ Len(d.line) < Len(c.line)
                       \/ d.pc \in {"for", "raised"}
               /\ c.pc = "return" => d.pc = "done"
               /\ d.pc = "raised" => d.exc.type = "SyntaxError"
      ]_vars

(***************************************************************************)
(* C17. An 'Unclosed substitution' Diagnostic carries the number and the   *)
(* raw text of the last physical line of the input, wherever the           *)
(* unterminated directive was opened.                                      *)
(***************************************************************************)
C17_UnclosedAtLastLine ==
    \A i \in Calls :
        Diagnostic(comp[i], "Unclosed substitution") =>
            LET lines == readlines(data)
            IN  /\ lines # <<>>
                /\ comp[i].exc.lineno = Len(lines)
                /\ comp[i].exc.text = Last(lines)
                /\ comp[i].exc.filename = filename

\* the directive was opened on the first line and the input ends on a later
\* line that holds no opener
C17_Witness ==
    \E i \in Calls :
        /\ Diagnostic(comp[i], "Unclosed substitution")
        /\ Len(readlines(data)) >= 2
        /\ Len(directives(data, FALSE)) = 1
        /\ contains(readlines(data)[1], opener)
        /\ comp[i].exc.lineno >= 2
        /\ ~contains(comp[i].exc.text, opener)

(***************************************************************************)
(* C18. A pass-through directive that begins with a continuation keyword   *)
(* and ends with ':', processed at level n >= 1, is printed at depth n - 1 *)
(* and leaves the level at n; a statement printed next is at depth n.      *)
(***************************************************************************)
C18_ContinuationKeepsLevel ==
    [][\A i \in Calls :
         LET c == comp[i]
             d == comp'[i]
             t == next_directive(c)
         IN  ( /\ Substitution(i)
               /\ ends_with_colon(t) /\ begins_continuation(t)
               /\ c.level >= 1 )
             => ( /\ d.out = Append(c.out, times(indent, c.level - 1) \o t)
                  /\ depth(Last(d.out)) = c.level - 1
                  /\ d.level = c.level )
      ]_vars

\* 'else:' was processed at level 2 and the literal after it printed at
\* depth 2
C18_Witness ==
    \E i \in Calls :
        /\ comp[i].level = 2
        /\ Len(comp[i].out) = 4
        /\ SubSeq(comp[i].out, 1, 3) = <<kw_if, indent \o kw_if, indent \o kw_else>>
        /\ depth(comp[i].out[4]) = 2
        /\ comp[i].exc = NoExc

\* s is the end of t
is_suffix(s, t) ==
    Len(s) <= Len(t) /\ SubSeq(t, Len(t) - Len(s) + 1, Len(t)) = s

(***************************************************************************)
(* C19. The scanner conserves the characters of the input.  A step that    *)
(* completes a span takes that span and its delimiter, in this order, from *)
(* the front of the text not yet scanned (carried buffer, rest of the      *)
(* line, lines not yet read) and nothing else; every other step leaves     *)
(* that text as it is, so it is always the end of the template and what    *)
(* precedes it is the spans and delimiters consumed so far.  Once a line   *)
(* has been processed the text not yet turned into a span is the buffer    *)
(* followed by the lines not yet read, and at end-of-input the buffer      *)
(* alone.                                                                  *)
(***************************************************************************)
C19_CharacterConservation ==
    [][\A i \in Calls :
         LET c == comp[i]
             d == comp'[i]
         IN  d # c =>
               /\ (LiteralSpan(i) \/ Substitution(i)) =>
                      remaining(c) = d.text \o delimiter(c) \o remaining(d)
               /\ ~(LiteralSpan(i) \/ Substitution(i)) =>
                      remaining(d) = remaining(c)
               /\ is_suffix(remaining(d), data)
               /\ seen(d) \o remaining(d) = data
               /\ d.pc = "for" =>
                      /\ d.line = <<>>
                      /\ seen(d) \o d.multiline
                           = Flatten(SubSeq(readlines(data), 1, d.linenumber))
               /\ d.pc \in {"return", "done"} =>
                      remaining(d) = d.multiline
      ]_vars

\* two lines were read, spans were completed on the first, and the input
\* ended with a buffer that runs over both lines
C19_Witness ==
    \E i \in Calls :
        /\ comp[i].pc = "return"
        /\ comp[i].linenumber = 2
        /\ contains(seen(comp[i]), closer)
        /\ contains(comp[i].multiline, <<NL>>)
        /\ Last(comp[i].multiline) # NL

====
